---- MODULE Spec2Model ----
(***************************************************************************)
(* Model of src/app.py: the expense tracker's five tables, the login       *)
(* sessions of its clients and one action per route handler.  Each handler *)
(* is one atomic step (one request, one transaction).  The backing store   *)
(* is the default one of line 10 (sqlite:///gastos.db): an INTEGER PRIMARY *)
(* KEY is the largest id in the table plus one, and the tables exist only  *)
(* once /setup has run db.create_all().                                    *)
(***************************************************************************)
EXTENDS Integers, Sequences, FiniteSets, TLC

VARIABLES tablas, usuarios, categorias, metodos_pago, presupuestos, gastos,
          sesion, reloj, ultima

vars == <<tablas, usuarios, categorias, metodos_pago, presupuestos, gastos,
          sesion, reloj, ultima>>

db == <<tablas, usuarios, categorias, metodos_pago, presupuestos, gastos>>

(* ------------------------------ bounds -------------------------------- *)

MaxUsuarioId == 3
MaxGastoId == 2
MaxPresupuestoId == 2
MaxReloj == 1
TicksPorDia == 2

(* ------------------------- request inputs ----------------------------- *)

\* request.form.get / request.args.get of a field that was not sent
Ausente == "<None>"

Clientes == {"c1", "c2"}

FormA == [monto |-> "10", descripcion |-> "cafe", categoria_id |-> "1", metodo_id |-> "1"]

FormB == [monto |-> "-5", descripcion |-> "bus", categoria_id |-> "2", metodo_id |-> "2"]

FormCero == [monto |-> "0", descripcion |-> "cafe", categoria_id |-> "2", metodo_id |-> "1"]

FormSinMonto == [monto |-> Ausente, descripcion |-> "bus", categoria_id |-> "1", metodo_id |-> "1"]

SinConsulta == [categoria_id |-> Ausente, inicio |-> Ausente, fin |-> Ausente]

Consultas ==
    { SinConsulta,
      [categoria_id |-> "1",     inicio |-> Ausente, fin |-> Ausente],
      [categoria_id |-> Ausente, inicio |-> "0",     fin |-> Ausente],
      [categoria_id |-> Ausente, inicio |-> "",      fin |-> "1"],
      [categoria_id |-> Ausente, inicio |-> "0",     fin |-> "0"],
      [categoria_id |-> Ausente, inicio |-> "1",     fin |-> "1"],
      [categoria_id |-> "2",     inicio |-> "0",     fin |-> "1"] }

(* --------------------------- conversions ------------------------------ *)

\* Python truthiness of a form value: None and "" are false, "0" is true
Truthy(s) == s # Ausente /\ s # ""

\* the strings float() accepts, with their values
Flotantes == {<<"-5", -5>>, <<"0", 0>>, <<"10", 10>>, <<"50", 50>>, <<"100", 100>>}

EsFloat(s) == \E p \in Flotantes : p[1] = s

ParseFloat(s) == (CHOOSE p \in Flotantes : p[1] = s)[2]

\* the strings int() accepts, with their values
Enteros == {<<"0", 0>>, <<"1", 1>>, <<"2", 2>>}

EsInt(s) == \E p \in Enteros : p[1] = s

ParseInt(s) == (CHOOSE p \in Enteros : p[1] = s)[2]

\* a date string compared with a DateTime column is midnight of that day
FechaDe(s) == ParseInt(s) * TicksPorDia

\* werkzeug.security: a hash verifies exactly the password it was made from
generate_password_hash(p) == <<"hash", p>>

check_password_hash(h, p) == h = <<"hash", p>>

(* ----------------------------- the store ------------------------------ *)

Max(S) == CHOOSE x \in S : \A y \in S : y <= x

Min(S) == CHOOSE x \in S : \A y \in S : x <= y

\* id = db.Column(db.Integer, primary_key=True) on SQLite
NextId(tabla) == IF tabla = {} THEN 1 ELSE Max({r.id : r \in tabla}) + 1

\* Query.first(): the row with the lowest id, or none
First(filas) == IF filas = {} THEN {} ELSE {CHOOSE r \in filas : r.id = Min({x.id : x \in filas})}

\* Query.get(id)
Get(tabla, id) == {r \in tabla : r.id = id}

\* unique=True: an INSERT of a name the column already holds fails
ViolaUnique(nombres, nuevos) == nombres \cap nuevos # {}

NombresCategoria == <<"Comida", "Transporte", "Ocio", "Salud">>

NombresMetodo == <<"Efectivo", "Tarjeta Débito", "Tarjeta Crédito">>

\* db.session.add_all of one row per name, ids in insertion order
AddAll(tabla, nombres) ==
    LET base == NextId(tabla) - 1
    IN  tabla \cup {[id |-> base + i, nombre |-> nombres[i]] : i \in 1..Len(nombres)}

Rango(s) == {s[i] : i \in 1..Len(s)}

(* ----------------------------- sessions ------------------------------- *)

\* load_user: the row of the session's user id, if it (still) exists
load_user(user_id) == Get(usuarios, user_id)

\* current_user.id, 0 for the anonymous user
Actor(c) == IF tablas /\ sesion[c] # 0 /\ load_user(sesion[c]) # {} THEN sesion[c] ELSE 0

Rol(uid) == (CHOOSE u \in usuarios : u.id = uid).rol

(* -------------------------- the last request -------------------------- *)

\* the number of rows the five tables hold
TotalFilas ==
    Cardinality(usuarios) + Cardinality(categorias) + Cardinality(metodos_pago)
        + Cardinality(presupuestos) + Cardinality(gastos)

\* the request last served: the handler, current_user.id (0 for the anonymous
\* user), the id of the path, the text submitted, the response, and the rows the
\* store held when the request arrived
Peticion(op, actor, id, texto, res) ==
    [op |-> op, actor |-> actor, id |-> id, texto |-> texto, res |-> res,
     filas |-> TotalFilas,
     q |-> SinConsulta, lista |-> <<>>, limite |-> 0, saldo |-> 0]

Init ==
    /\ tablas = FALSE
    /\ usuarios = {}
    /\ categorias = {}
    /\ metodos_pago = {}
    /\ presupuestos = {}
    /\ gastos = {}
    /\ sesion = [c \in Clientes |-> 0]
    /\ reloj = 0
    /\ ultima = Peticion("inicio", 0, 0, "", "")

(* ------------------------------ /setup -------------------------------- *)

\* the seed inserted on every call
SiempreSinCategorias == TRUE

\* not Categoria.query.first()
SinCategorias == categorias = {}

\* not MetodoPago.query.first()
SinMetodos == metodos_pago = {}

\* not Usuario.query.filter_by(username='admin').first()
SinAdmin == {u \in usuarios : u.username = "admin"} = {}

setup ==
    LET cats == IF SinCategorias THEN AddAll(categorias, NombresCategoria) ELSE categorias
        mets == IF SinMetodos THEN AddAll(metodos_pago, NombresMetodo) ELSE metodos_pago
        usrs == IF SinAdmin
                THEN usuarios \cup {[id |-> NextId(usuarios), username |-> "admin",
                                     password |-> generate_password_hash("admin123"),
                                     rol |-> "admin"]}
                ELSE usuarios
        falla == \/ SinCategorias /\ ViolaUnique({r.nombre : r \in categorias}, Rango(NombresCategoria))
                 \/ SinMetodos /\ ViolaUnique({r.nombre : r \in metodos_pago}, Rango(NombresMetodo))
                 \/ SinAdmin /\ ViolaUnique({u.username : u \in usuarios}, {"admin"})
    IN  /\ SinAdmin => NextId(usuarios) <= MaxUsuarioId
        /\ tablas' = TRUE
        /\ IF falla
           THEN /\ UNCHANGED <<usuarios, categorias, metodos_pago>>
                /\ ultima' = Peticion("setup", 0, 0, "", "500")
           ELSE /\ categorias' = cats
                /\ metodos_pago' = mets
                /\ usuarios' = usrs
                /\ ultima' = Peticion("setup", 0, 0, "", "ok")
        /\ UNCHANGED <<presupuestos, gastos, sesion, reloj>>

(* --------------------------- /register -------------------------------- *)

\* the column defaulting to the elevated role
RolAdminPorDefecto == "admin"

\* rol = db.Column(db.String(20), default='usuario')
RolPorDefecto == "usuario"

\* the existence test left out
UsernameSiempreLibre(username) == TRUE

\* not Usuario.query.filter_by(username=username).first()
UsernameLibre(username) == First({u \in usuarios : u.username = username}) = {}

register(username, password) ==
    /\ UNCHANGED <<tablas, categorias, metodos_pago, presupuestos, gastos, sesion, reloj>>
    /\ IF ~tablas
       THEN /\ UNCHANGED usuarios
            /\ ultima' = Peticion("register", 0, 0, username, "500")
       ELSE IF UsernameLibre(username)
       THEN IF ViolaUnique({u.username : u \in usuarios}, {username})
            THEN /\ UNCHANGED usuarios
                 /\ ultima' = Peticion("register", 0, 0, username, "500")
            ELSE /\ NextId(usuarios) <= MaxUsuarioId
                 /\ usuarios' = usuarios \cup
                        {[id |-> NextId(usuarios), username |-> username,
                          password |-> generate_password_hash(password),
                          rol |-> RolPorDefecto]}
                 /\ ultima' = Peticion("register", 0, 0, username, "redirect_login")
       ELSE /\ UNCHANGED usuarios
            /\ ultima' = Peticion("register", 0, 0, username, "ya_existe")

(* ------------------------- /login, /logout ---------------------------- *)

login(c, username, password) ==
    LET user == First({u \in usuarios : u.username = username})
    IN  /\ UNCHANGED <<db, reloj>>
        /\ IF ~tablas
           THEN /\ UNCHANGED sesion
                /\ ultima' = Peticion("login", 0, 0, "", "500")
           ELSE IF user # {} /\ \A u \in user : check_password_hash(u.password, password)
           THEN /\ sesion' = [sesion EXCEPT ![c] = (CHOOSE u \in user : TRUE).id]
                /\ ultima' = Peticion("login", 0, 0, "", "redirect_index")
           ELSE /\ UNCHANGED sesion
                /\ ultima' = Peticion("login", 0, 0, "", "credenciales")

logout(c) ==
    /\ sesion' = [sesion EXCEPT ![c] = 0]
    /\ ultima' = Peticion("logout", 0, 0, "", "redirect_login")
    /\ UNCHANGED <<db, reloj>>

(* ----------------------- /definir_presupuesto ------------------------- *)

\* the lookup of the existing row left out
PresupuestoNoHallado(uid) == {}

\* Presupuesto.query.filter_by(usuario_id=...).first()
PresupuestoDe(uid) == First({p \in presupuestos : p.usuario_id = uid})

definir_presupuesto(c, monto) ==
    LET a == Actor(c)
        p == PresupuestoDe(a)
    IN  /\ UNCHANGED <<tablas, usuarios, categorias, metodos_pago, gastos, sesion, reloj>>
        /\ IF a = 0
           THEN /\ UNCHANGED presupuestos
                /\ ultima' = Peticion("definir_presupuesto", a, 0, "", "redirect_login")
           ELSE IF ~Truthy(monto)
           THEN /\ UNCHANGED presupuestos
                /\ ultima' = Peticion("definir_presupuesto", a, 0, "", "redirect_index")
           ELSE IF ~EsFloat(monto)
           THEN /\ UNCHANGED presupuestos
                /\ ultima' = Peticion("definir_presupuesto", a, 0, "", "500")
           ELSE /\ IF p # {}
                   THEN presupuestos' = (presupuestos \ p) \cup
                            {[r EXCEPT !.monto_limite = ParseFloat(monto)] : r \in p}
                   ELSE /\ NextId(presupuestos) <= MaxPresupuestoId
                        /\ presupuestos' = presupuestos \cup
                               {[id |-> NextId(presupuestos),
                                 monto_limite |-> ParseFloat(monto), usuario_id |-> a]}
                /\ ultima' = Peticion("definir_presupuesto", a, 0, monto, "actualizado")

(* ----------------------------- /agregar ------------------------------- *)

agregar(c, f) ==
    LET a == Actor(c)
    IN  /\ UNCHANGED <<tablas, usuarios, categorias, metodos_pago, presupuestos, sesion, reloj>>
        /\ IF a = 0
           THEN /\ UNCHANGED gastos
                /\ ultima' = Peticion("agregar", a, 0, "", "redirect_login")
           ELSE IF ~(Truthy(f.monto) /\ Truthy(f.descripcion)
                     /\ Truthy(f.categoria_id) /\ Truthy(f.metodo_id))
           THEN /\ UNCHANGED gastos
                /\ ultima' = Peticion("agregar", a, 0, "", "redirect_index")
           ELSE IF ~(EsFloat(f.monto) /\ EsInt(f.categoria_id) /\ EsInt(f.metodo_id))
           THEN /\ UNCHANGED gastos
                /\ ultima' = Peticion("agregar", a, 0, "", "500")
           ELSE /\ NextId(gastos) <= MaxGastoId
                /\ gastos' = gastos \cup
                       {[id |-> NextId(gastos), monto |-> ParseFloat(f.monto),
                         descripcion |-> f.descripcion, fecha |-> reloj,
                         usuario_id |-> a, categoria_id |-> ParseInt(f.categoria_id),
                         metodo_id |-> ParseInt(f.metodo_id)]}
                /\ ultima' = Peticion("agregar", a, NextId(gastos), "", "registrado")

(* ------------------------ /editar, /eliminar -------------------------- *)

\* the ownership test left out
EsDuenoSinControl(gasto, uid) == TRUE

\* gasto.usuario_id == current_user.id
EsDueno(gasto, uid) == gasto.usuario_id = uid

editar(c, id, f) ==
    LET a == Actor(c)
        gasto == Get(gastos, id)
    IN  /\ UNCHANGED <<tablas, usuarios, categorias, metodos_pago, presupuestos, sesion, reloj>>
        /\ IF a = 0
           THEN /\ UNCHANGED gastos
                /\ ultima' = Peticion("editar", a, id, "", "redirect_login")
           ELSE IF gasto = {}
           THEN /\ UNCHANGED gastos
                /\ ultima' = Peticion("editar", a, id, "", "404")
           ELSE IF ~(\A g \in gasto : EsDueno(g, a))
           THEN /\ UNCHANGED gastos
                /\ ultima' = Peticion("editar", a, id, "", "redirect_index")
           ELSE IF ~(EsFloat(f.monto) /\ f.descripcion # Ausente
                     /\ EsInt(f.categoria_id) /\ EsInt(f.metodo_id))
           THEN /\ UNCHANGED gastos
                /\ ultima' = Peticion("editar", a, id, "", "500")
           ELSE /\ gastos' = (gastos \ gasto) \cup
                       {[g EXCEPT !.monto = ParseFloat(f.monto),
                                  !.descripcion = f.descripcion,
                                  !.categoria_id = ParseInt(f.categoria_id),
                                  !.metodo_id = ParseInt(f.metodo_id)] : g \in gasto}
                /\ ultima' = Peticion("editar", a, id, "", "actualizado")

eliminar(c, id) ==
    LET a == Actor(c)
        gasto == Get(gastos, id)
    IN  /\ UNCHANGED <<tablas, usuarios, categorias, metodos_pago, presupuestos, sesion, reloj>>
        /\ IF a = 0
           THEN /\ UNCHANGED gastos
                /\ ultima' = Peticion("eliminar", a, id, "", "redirect_login")
           ELSE IF gasto = {}
           THEN /\ UNCHANGED gastos
                /\ ultima' = Peticion("eliminar", a, id, "", "404")
           ELSE IF ~(\A g \in gasto : EsDueno(g, a))
           THEN /\ UNCHANGED gastos
                /\ ultima' = Peticion("eliminar", a, id, "", "redirect_index")
           ELSE /\ gastos' = gastos \ gasto
                /\ ultima' = Peticion("eliminar", a, id, "", "eliminado")

(* ------------------------- /eliminar_usuario -------------------------- *)

\* current_user.rol != 'admin'
EsAdmin(uid) == Rol(uid) = "admin"

\* the self-deletion test left out
NoEsPropioSinControl(u, uid) == TRUE

\* u.id != current_user.id
NoEsPropio(u, uid) == u.id # uid

\* the relationship declared without its cascade
GastosSinCascada(uid) == gastos

\* cascade="all, delete-orphan" on Usuario.gastos
GastosTrasCascada(uid) == {g \in gastos : g.usuario_id # uid}

\* cascade="all, delete-orphan" on Usuario.presupuesto (uselist=False)
PresupuestosTrasCascada(uid) == presupuestos \ PresupuestoDe(uid)

eliminar_usuario(c, id) ==
    LET a == Actor(c)
        u == Get(usuarios, id)
    IN  /\ UNCHANGED <<tablas, categorias, metodos_pago, sesion, reloj>>
        /\ IF a = 0
           THEN /\ UNCHANGED <<usuarios, gastos, presupuestos>>
                /\ ultima' = Peticion("eliminar_usuario", a, id, "", "redirect_login")
           ELSE IF ~EsAdmin(a)
           THEN /\ UNCHANGED <<usuarios, gastos, presupuestos>>
                /\ ultima' = Peticion("eliminar_usuario", a, id, "", "redirect_index")
           ELSE IF u = {}
           THEN /\ UNCHANGED <<usuarios, gastos, presupuestos>>
                /\ ultima' = Peticion("eliminar_usuario", a, id, "", "404")
           ELSE IF \A x \in u : NoEsPropio(x, a)
           THEN /\ usuarios' = usuarios \ u
                /\ gastos' = GastosTrasCascada(id)
                /\ presupuestos' = PresupuestosTrasCascada(id)
                /\ ultima' = Peticion("eliminar_usuario", a, id, "", "eliminado")
           ELSE /\ UNCHANGED <<usuarios, gastos, presupuestos>>
                /\ ultima' = Peticion("eliminar_usuario", a, id, "", "propio")

(* --------------------------------- / ---------------------------------- *)

RECURSIVE Suma(_)
\* sum(g.monto for g in mis_gastos)
Suma(S) == IF S = {} THEN 0 ELSE LET g == CHOOSE x \in S : TRUE IN g.monto + Suma(S \ {g})

RECURSIVE OrdenAsc(_)
\* the ordering without .desc()
OrdenAsc(S) ==
    IF S = {} THEN <<>>
    ELSE LET g == CHOOSE x \in S : x.id = Min({y.id : y \in S})
         IN  <<g>> \o OrdenAsc(S \ {g})

RECURSIVE OrdenDesc(_)
\* order_by(Gasto.id.desc()).all()
OrdenDesc(S) ==
    IF S = {} THEN <<>>
    ELSE LET g == CHOOSE x \in S : x.id = Max({y.id : y \in S})
         IN  <<g>> \o OrdenDesc(S \ {g})

\* the filter switched on by either bound
FiltroFechaConUnLimite(inicio, fin) == Truthy(inicio) \/ Truthy(fin)

\* if inicio and fin
FiltroFechaActivo(inicio, fin) == Truthy(inicio) /\ Truthy(fin)

\* Gasto.fecha.between(inicio, fin): inclusive; a comparison with a bound that
\* is NULL is not true of any row
Between(fecha, inicio, fin) ==
    /\ EsInt(inicio) /\ EsInt(fin)
    /\ FechaDe(inicio) <= fecha /\ fecha <= FechaDe(fin)

\* the query of lines 76-78, before the ordering
Consulta(uid, q) ==
    LET propios == {g \in gastos : g.usuario_id = uid}
        porCat  == IF Truthy(q.categoria_id)
                   THEN {g \in propios : g.categoria_id = ParseInt(q.categoria_id)}
                   ELSE propios
    IN  IF FiltroFechaActivo(q.inicio, q.fin)
        THEN {g \in porCat : Between(g.fecha, q.inicio, q.fin)}
        ELSE porCat

index(c, q) ==
    LET a == Actor(c)
        mis_gastos == Consulta(a, q)
        p == PresupuestoDe(a)
        limite == IF p # {} THEN (CHOOSE r \in p : TRUE).monto_limite ELSE 0
    IN  /\ UNCHANGED <<db, sesion, reloj>>
        /\ IF a = 0
           THEN ultima' = Peticion("index", a, 0, "", "anonimo")
           ELSE IF EsAdmin(a)
           THEN ultima' = Peticion("index", a, 0, "", "redirect_dashboard")
           ELSE IF Truthy(q.categoria_id) /\ ~EsInt(q.categoria_id)
           THEN ultima' = Peticion("index", a, 0, "", "500")
           ELSE ultima' = [Peticion("index", a, 0, "", "lista") EXCEPT
                              !.q = q, !.lista = OrdenDesc(mis_gastos),
                              !.limite = limite, !.saldo = limite - Suma(mis_gastos)]

(* ------------------------------- time --------------------------------- *)

\* db.func.now() moves on between requests
Tick ==
    /\ reloj < MaxReloj
    /\ reloj' = reloj + 1
    /\ UNCHANGED <<db, sesion, ultima>>

(* --------------------------- specifications --------------------------- *)

\* every handler, two clients, the accounts admin and ana
Next ==
    \/ setup
    \/ \E n \in {"admin", "ana"} : register(n, "clave")
    \/ \E c \in Clientes, n \in {"admin", "ana"}, p \in {"clave", "admin123"} : login(c, n, p)
    \/ \E c \in Clientes : logout(c)
    \/ \E c \in Clientes, m \in {"100", "50", ""} : definir_presupuesto(c, m)
    \/ \E c \in Clientes, f \in {FormA, FormB} : agregar(c, f)
    \/ \E c \in Clientes, id \in 1..MaxGastoId, f \in {FormA, FormB} : editar(c, id, f)
    \/ \E c \in Clientes, id \in 1..MaxGastoId : eliminar(c, id)
    \/ \E c \in Clientes, id \in 1..MaxUsuarioId : eliminar_usuario(c, id)
    \/ \E c \in Clientes : index(c, SinConsulta)

Spec == Init /\ [][Next]_vars

\* accounts: three usernames, so that two standard users exist next to the admin
NextUsuarios ==
    \/ setup
    \/ \E n \in {"admin", "ana", "eva"} : register(n, "clave")
    \/ \E c \in Clientes, n \in {"admin", "ana", "eva"}, p \in {"clave", "admin123"} : login(c, n, p)
    \/ \E c \in Clientes : logout(c)
    \/ \E c \in Clientes : definir_presupuesto(c, "100")
    \/ \E c \in Clientes : agregar(c, FormA)
    \/ \E c \in Clientes, id \in 1..MaxUsuarioId : eliminar_usuario(c, id)

SpecUsuarios == Init /\ [][NextUsuarios]_vars

\* expenses of two standard users: every form, every query, a moving clock
NextGastos ==
    \/ setup
    \/ \E n \in {"ana", "eva"} : register(n, "clave")
    \/ \E c \in Clientes, n \in {"ana", "eva"} : login(c, n, "clave")
    \/ \E c \in Clientes, f \in {FormA, FormB, FormCero, FormSinMonto} : agregar(c, f)
    \/ \E c \in Clientes, id \in 1..MaxGastoId, f \in {FormA, FormB, FormSinMonto} : editar(c, id, f)
    \/ \E c \in Clientes, id \in 1..MaxGastoId : eliminar(c, id)
    \/ \E c \in Clientes, q \in Consultas : index(c, q)
    \/ Tick

SpecGastos == Init /\ [][NextGastos]_vars

(* ------------------------------ properties ---------------------------- *)

\* C1: an editar or eliminar request by a logged-in user on an expense owned by
\* another user changes nothing: the expense still exists with the same amount,
\* description, category, payment method and owner.
C1_AjenoSinEfecto ==
    [][ ( /\ ultima'.op \in {"editar", "eliminar"}
          /\ ultima'.actor # 0
          /\ \E g \in gastos : g.id = ultima'.id /\ g.usuario_id # ultima'.actor )
        => gastos' = gastos ]_vars

C1_Testigo ==
    /\ ultima.op \in {"editar", "eliminar"}
    /\ ultima.actor # 0
    /\ ultima.res = "redirect_index"
    /\ \E g \in gastos : g.id = ultima.id /\ g.usuario_id # ultima.actor

\* C2: a User row disappears only through eliminar_usuario issued by an actor
\* whose role is admin and whose id is not the target's; a request by a
\* non-admin, or by an admin on their own id, leaves every user in place.
C2_SoloAdminBorraAOtro ==
    [][ \A u \in usuarios : u \notin usuarios' =>
            /\ ultima'.op = "eliminar_usuario"
            /\ ultima'.id = u.id
            /\ \E x \in usuarios : x.id = ultima'.actor /\ x.rol = "admin" /\ x.id # u.id ]_vars

C2_Testigo ==
    /\ ultima.op = "eliminar_usuario"
    /\ ultima.res = "propio"
    /\ \E u \in usuarios : u.id = ultima.id /\ u.id = ultima.actor /\ u.rol = "admin"

\* C3: every Expense and every Budget is owned by an existing User, in
\* particular right after an admin has deleted a user.
C3_DuenosExisten ==
    /\ \A g \in gastos : \E u \in usuarios : u.id = g.usuario_id
    /\ \A p \in presupuestos : \E u \in usuarios : u.id = p.usuario_id

C3_Testigo ==
    /\ ultima.op = "eliminar_usuario"
    /\ ultima.res = "eliminado"
    /\ TotalFilas + 3 = ultima.filas
    /\ gastos # {}

\* C4: no two User rows share a username, and a registration is answered with
\* a server error only while the tables do not exist: one with a username that
\* is taken is answered "El usuario ya existe" and adds no row.
C4_UsernameUnico ==
    /\ \A u, v \in usuarios : u.username = v.username => u = v
    /\ (ultima.op = "register" /\ ultima.res = "500") => ~tablas
    /\ (ultima.op = "register" /\ ultima.res = "ya_existe")
           => /\ TotalFilas = ultima.filas
              /\ Cardinality({u \in usuarios : u.username = ultima.texto}) = 1

C4_Testigo ==
    /\ ultima.op = "register"
    /\ ultima.res = "ya_existe"
    /\ Cardinality(usuarios) >= 2

\* C5: once setup has run there is exactly one admin User and exactly one row
\* for each default Category and PaymentMethod name; setup always succeeds and
\* an invocation that finds rows in the store adds none.
C5_SetupIdempotente ==
    /\ ultima.op = "setup" => ultima.res = "ok"
    /\ (ultima.op = "setup" /\ ultima.filas > 0) => TotalFilas = ultima.filas
    /\ tablas =>
         /\ Cardinality({u \in usuarios : u.rol = "admin"}) = 1
         /\ Cardinality({u \in usuarios : u.username = "admin"}) = 1
         /\ Cardinality(categorias) = Len(NombresCategoria)
         /\ Cardinality(metodos_pago) = Len(NombresMetodo)
         /\ \A i \in 1..Len(NombresCategoria) :
                Cardinality({r \in categorias : r.nombre = NombresCategoria[i]}) = 1
         /\ \A i \in 1..Len(NombresMetodo) :
                Cardinality({r \in metodos_pago : r.nombre = NombresMetodo[i]}) = 1

C5_Testigo ==
    /\ ultima.op = "setup"
    /\ ultima.filas > 0
    /\ Cardinality(usuarios) >= 2
    /\ gastos # {}

\* C6: each User has at most one Budget row; a definir_presupuesto that is
\* carried out leaves the actor with exactly one row, holding the submitted
\* limit, and adds a row only when the actor had none.
C6_UnPresupuesto ==
    /\ \A p1, p2 \in presupuestos : p1.usuario_id = p2.usuario_id => p1 = p2
    /\ (ultima.op = "definir_presupuesto" /\ ultima.res = "actualizado") =>
         /\ \E p \in presupuestos :
                p.usuario_id = ultima.actor /\ p.monto_limite = ParseFloat(ultima.texto)
         /\ TotalFilas <= ultima.filas + 1

C6_Testigo ==
    /\ ultima.op = "definir_presupuesto"
    /\ ultima.res = "actualizado"
    /\ TotalFilas = ultima.filas
    /\ Cardinality(presupuestos) = 2
    /\ \E p \in presupuestos : p.usuario_id = ultima.actor /\ p.monto_limite = 50

\* C7: every stored Expense has amount > 0.
C7_MontoPositivo == \A g \in gastos : g.monto > 0

\* C8: the listing applies the date range only when both bounds are supplied:
\* with one bound or none it is the listing without a date filter, with both it
\* holds exactly the expenses created within [inicio, fin], bounds included.
C8_FiltroFechas ==
    (ultima.op = "index" /\ ultima.res = "lista") =>
        LET q == ultima.q
            sinFecha == {g \in gastos :
                            /\ g.usuario_id = ultima.actor
                            /\ q.categoria_id \notin {Ausente, ""}
                                   => g.categoria_id = ParseInt(q.categoria_id)}
            ambos == q.inicio \notin {Ausente, ""} /\ q.fin \notin {Ausente, ""}
            esperado == IF ambos
                        THEN {g \in sinFecha :
                                 g.fecha >= FechaDe(q.inicio) /\ g.fecha <= FechaDe(q.fin)}
                        ELSE sinFecha
        IN  /\ Rango(ultima.lista) = esperado
            /\ Len(ultima.lista) = Cardinality(esperado)

C8_Testigo ==
    /\ ultima.op = "index"
    /\ ultima.res = "lista"
    /\ ultima.q.inicio = "0" /\ ultima.q.fin = "0"
    /\ Len(ultima.lista) = 1
    /\ Cardinality({g \in gastos : g.usuario_id = ultima.actor}) = 2

\* C9: the unfiltered listing returned to a standard user is exactly the set of
\* existing Expense rows owned by that user, in descending order of id.
C9_ListadoPropio ==
    (ultima.op = "index" /\ ultima.res = "lista" /\ ultima.q = SinConsulta) =>
        /\ \E u \in usuarios : u.id = ultima.actor /\ u.rol # "admin"
        /\ Rango(ultima.lista) = {g \in gastos : g.usuario_id = ultima.actor}
        /\ Len(ultima.lista) = Cardinality({g \in gastos : g.usuario_id = ultima.actor})
        /\ \A i, j \in 1..Len(ultima.lista) :
               i < j => ultima.lista[i].id > ultima.lista[j].id

C9_Testigo ==
    /\ ultima.op = "index"
    /\ ultima.res = "lista"
    /\ ultima.q = SinConsulta
    /\ Len(ultima.lista) = 2

\* C10: only setup creates a User with role admin, at most one User has role
\* admin, and no step deletes the admin or changes its row.
C10_AdminEstable ==
    [][ /\ \A u \in usuarios : u.rol = "admin" => u \in usuarios'
        /\ \A u \in usuarios' \ usuarios : u.rol = "admin" => ultima'.op = "setup"
        /\ Cardinality({u \in usuarios' : u.rol = "admin"}) <= 1 ]_vars

C10_Testigo ==
    /\ ultima.op = "eliminar_usuario"
    /\ ultima.actor # 0
    /\ ultima.actor # ultima.id
    /\ \E u \in usuarios : u.id = ultima.id /\ u.rol = "admin"
    /\ Cardinality(usuarios) >= 2

====
